---------------------------- MODULE Spec2Model ----------------------------
(***************************************************************************)
(* Model of the INDI-HUNTER world simulation: the LevelManager controller  *)
(* (transition effect and per-frame step of                                *)
(* src/components/World/LevelManager.tsx) run against the game state       *)
(* store.                                                                  *)
(*                                                                         *)
(* Units.  Lengths are in thousandths of a world unit, the frame time      *)
(* delta in milliseconds and the speed in units per second, so that        *)
(* speed * delta is a length and the constants of the source are integers  *)
(* (2.2 -> 2200, 0.05 s -> 50, 28 u/s -> 28).                              *)
(*                                                                         *)
(* The store (../../store) is not among the sources; its transitions are   *)
(* modelled from the specification and are marked so in the model map.     *)
(***************************************************************************)
EXTENDS Integers, Sequences, FiniteSets, TLC

(***************************************************************************)
(* Bounds of the model.                                                    *)
(***************************************************************************)
MaxTicks == 3          \* frames of one run
MaxTicksLanes == 1     \* frames of one run in the three-lane specification
MaxTicksLate == 2      \* frames the late-run specification follows
MaxTicksBoar == 2      \* frames the idle-boar specification follows
MaxTicksPortal == 2    \* frames of one run in the portal specification
MaxTicksLetter == 2    \* frames the letter specification follows
MaxTicksHit == 2       \* frames the hazard specification follows
MaxTicksPlayer == 1    \* frames of one run in the player specification
MaxTicksLevel == 1     \* frames of one run in the level specification
MaxIds == 3            \* entities created in one run

\* Store inputs the controller reads; the store does not bound them.
\* At 70 a batch spawns at z = -120 and a frame moves the world by 3.5 at
\* most; at 2420 a clamped frame moves it by 121, from the spawn line to the
\* player, and a frame of 0.042 s by 101.64, from a portal to the player.
Speeds == {70, 2420}
Deltas == {42, 100}                \* 0.042 s, and 0.1 s which the frame clamps
LaneCounts == {1}                  \* one lane: the batches stay small
LaneCountsLanes == {1, 3}
LaneCountsPlayer == {1, 2, 3, 5}
LaneCountsDegenerate == {0, -1, -3}  \* no lane, and a negative lane bound
PlayerXs == {0, 900}               \* the middle lane's centre and 0.9 beside it
PlayerYs == {0, 1000, 1600}        \* on the ground and two jump heights

(***************************************************************************)
(* Program constants.                                                      *)
(***************************************************************************)
LANE_WIDTH == 2200
SPAWN_DISTANCE == 120000
REMOVE_DISTANCE == 20000
INITIAL_SCORE == 300
SCORE_PENALTY_BOAR == 100
SCORE_PENALTY_MONSTER == 100
SCORE_PENALTY_OBSTACLE == 10
BASE_LETTER_INTERVAL == 150000
MISSILE_SPEED == 28
MaxDelta == 50
MaxLevel == 3

GameStatus == {"MENU", "PLAYING", "SHOP", "GAME_OVER", "VICTORY"}
ObjectType == {"OBSTACLE", "GEM", "LETTER", "SHOP_PORTAL", "ALIEN", "MISSILE", "MONSTER"}
target == <<"H", "U", "N", "T", "E", "R">>
GemPoints == {10, 100}             \* the least and the greatest of [10, 50, 100]

VARIABLES
    status, level, speed, laneCount, score, collectedLetters,  \* the store
    hasDoubleJump, hasImmortality,
    items,       \* the items the ShopScreen offers; none while it is not drawn
    distance,
    objects, distanceTraveled, nextLetterDistance,             \* LevelManager refs
    prevStatus, prevLevel,
    playerPos,   \* the player's world position read by the last frame
    log,         \* store calls and window events of the last frame, in order
    tested,      \* ids of the entities the last frame tested for collision
    nextId,      \* ids handed out so far (uuidv4 is modelled as a counter)
    planned,     \* the branch of the spawning logic the last frame took
    ticks,       \* frames run so far
    playerLane   \* the Player component's lane state

vars == <<status, level, speed, laneCount, score, collectedLetters, distance, objects,
          distanceTraveled, nextLetterDistance, prevStatus, prevLevel,
          playerPos, log, tested, nextId, planned, ticks,
          hasDoubleJump, hasImmortality, items, playerLane>>

shopVars == <<hasDoubleJump, hasImmortality, items>>

(***************************************************************************)
(* Arithmetic helpers.                                                     *)
(***************************************************************************)
Min(a, b) == IF a <= b THEN a ELSE b
Max(a, b) == IF a >= b THEN a ELSE b
Abs(a) == IF a < 0 THEN -a ELSE a

RECURSIVE Pow(_, _)
Pow(b, e) == IF e <= 0 THEN 1 ELSE b * Pow(b, e - 1)

RECURSIVE SeqMin(_)
SeqMin(s) == IF Len(s) = 1 THEN s[1] ELSE Min(s[1], SeqMin(Tail(s)))

Range(s) == {s[i] : i \in DOMAIN s}

\* an interval that grows by half the base per level instead of by half
\* itself
getLetterInterval_Linear(lv) ==
    BASE_LETTER_INTERVAL + (BASE_LETTER_INTERVAL * Max(0, lv - 1)) \div 2

\* getLetterInterval: BASE_LETTER_INTERVAL * 1.5 ^ max(0, level - 1)
getLetterInterval(lv) ==
    (BASE_LETTER_INTERVAL * Pow(3, Max(0, lv - 1))) \div Pow(2, Max(0, lv - 1))

\* a lane drawn from one lane too many
getRandomLane_OneMore(lc) == {k - lc \div 2 : k \in 0..((lc \div 2) * 2 + 1)}

\* getRandomLane: floor(random * (2 max + 1)) - max for random in [0, 1)
getRandomLane(lc) ==
    LET max == lc \div 2
        n == max * 2 + 1
    IN  IF n > 0 THEN {k - max : k \in 0..(n - 1)}
                 ELSE {k - max : k \in n..0}


(***************************************************************************)
(* Entities.  Optional fields of GameObject that an entity does not carry  *)
(* hold a default: points 0, targetIndex -1, hasFired FALSE, value "".     *)
(***************************************************************************)
Entity(id, type, x, y, z, points, targetIndex) ==
    [id |-> id, type |-> type, x |-> x, y |-> y, z |-> z, active |-> TRUE,
     hasFired |-> FALSE, points |-> points, targetIndex |-> targetIndex,
     value |-> ""]

Event(ev, id, arg) == [ev |-> ev, id |-> id, arg |-> arg]

(***************************************************************************)
(* 1. Move & Update: one iteration of the loop over currentObjects.        *)
(***************************************************************************)
\* a frame time that is not clamped
safeDelta_Unclamped(delta) == delta

\* safeDelta = Math.min(delta, 0.05)
safeDelta(delta) == Min(delta, MaxDelta)

\* a frame that takes the move from z instead of adding it
moveAmount_Backwards(obj, dist, sd) ==
    IF obj.type = "MISSILE" THEN -(dist + MISSILE_SPEED * sd) ELSE -dist

\* moveAmount: dist, plus the charge speed for a charging boar
moveAmount(obj, dist, sd) ==
    IF obj.type = "MISSILE" THEN dist + MISSILE_SPEED * sd ELSE dist

\* an aggro test that ignores whether the boar has fired
Fires_Again(obj) == obj.type = "ALIEN" /\ obj.active /\ obj.z > -90000

\* Boar aggro: an active idle boar that has not fired and is past z = -90
Fires(obj) ==
    obj.type = "ALIEN" /\ obj.active /\ ~obj.hasFired /\ obj.z > -90000

\* the charging boar spawned by an idle boar that fires
ChargingBoar(obj, id) == Entity(id, "MISSILE", obj.x, 600, obj.z + 2000, 0, -1)

\* a z-window test on the position after the move alone
inZZone_AtEnd(prevZ, z, p) == Abs(z - p.z) < 2000

\* inZZone: the z-window test on the swept interval [prevZ, z]
inZZone(prevZ, z, p) == (prevZ < p.z + 2000) /\ (z > p.z - 2000)

isDamageSource(type) == type \in {"OBSTACLE", "ALIEN", "MISSILE", "MONSTER"}

objBottom(obj) ==
    IF obj.type \in {"OBSTACLE", "MISSILE", "MONSTER"} THEN 0 ELSE obj.y - 500

objTop(obj) ==
    IF obj.type = "OBSTACLE" THEN 1000
    ELSE IF obj.type \in {"MISSILE", "MONSTER"} THEN 1600
    ELSE obj.y + 500

\* a band test that counts touching bands as a hit
isHit_Touching(obj, p) == (p.y <= objTop(obj)) /\ (p.y + 1800 >= objBottom(obj))

\* isHit: the player's band [y, y + 1.8] intersects the entity's band
isHit(obj, p) == (p.y < objTop(obj)) /\ (p.y + 1800 > objBottom(obj))

\* labelData of GameEntity: the text of the floating label, "" for none
labelData(type, points) ==
    CASE type = "GEM" -> <<"+", points>>
      [] type = "OBSTACLE" -> <<"-", 10>>
      [] type \in {"MISSILE", "MONSTER"} -> <<"-", 100>>
      [] type = "ALIEN" -> <<"-", 100>>
      [] OTHER -> <<>>

\* a penalty that takes the boar's value for every damage source
Penalty_AllBoar(type) == SCORE_PENALTY_BOAR

\* Calculate Penalty
Penalty(type) ==
    IF type = "MONSTER" THEN SCORE_PENALTY_MONSTER
    ELSE IF type = "MISSILE" THEN SCORE_PENALTY_BOAR
    ELSE SCORE_PENALTY_OBSTACLE

\* the events of a confirmed damage hit, in the order the code raises them
DamageEvents(obj) ==
    <<Event("player-hit", obj.id, 0), Event("takeDamage", obj.id, Penalty(obj.type))>>
    \o (IF obj.type \in {"MISSILE", "MONSTER"}
        THEN <<Event("particle-burst", obj.id, 50)>> ELSE <<>>)

\* a collection that calls collectLetter without looking at the type
CollectEvents_NoTypeCheck(obj) ==
    (IF obj.type = "GEM"
     THEN <<Event("collectGem", obj.id, IF obj.points = 0 THEN 50 ELSE obj.points)>>
     ELSE <<>>)
    \o <<Event("collectLetter", obj.id, obj.targetIndex)>>
    \o <<Event("particle-burst", obj.id, 60)>>

\* the events of a collected collectible
CollectEvents(obj) ==
    (IF obj.type = "GEM"
     THEN <<Event("collectGem", obj.id, IF obj.points = 0 THEN 50 ELSE obj.points)>>
     ELSE <<>>)
    \o (IF obj.type = "LETTER" /\ obj.targetIndex # -1
        THEN <<Event("collectLetter", obj.id, obj.targetIndex)>> ELSE <<>>)
    \o <<Event("particle-burst", obj.id, 60)>>

\* a frame that enters the collision block whatever the active flag
IsTested_Always(obj) == TRUE

\* whether the frame enters the collision block for the entity
IsTested(obj) == obj.active

\* a portal test that also asks for the player's lane
PortalReached_InLane(o, p) == Abs(o.z - p.z) < 2000 /\ Abs(o.x - p.x) < 900

\* const dz = Math.abs(obj.position[2] - playerPos.z); if (dz < 2)
PortalReached(o, p) == Abs(o.z - p.z) < 2000

\* The collision block for a moved entity o that was at prevZ:
\* [active, keep, events, changed].
Resolve(o, prevZ, p) ==
    LET none == [active |-> o.active, keep |-> TRUE, events |-> <<>>, changed |-> FALSE]
    IN  IF ~IsTested(o) THEN none
        ELSE IF o.type = "SHOP_PORTAL"
        THEN IF PortalReached(o, p)
             THEN [active |-> FALSE, keep |-> FALSE,
                   events |-> <<Event("openShop", o.id, 0)>>, changed |-> TRUE]
             ELSE none
        ELSE IF inZZone(prevZ, o.z, p) /\ Abs(o.x - p.x) < 900
        THEN IF isDamageSource(o.type)
             THEN IF isHit(o, p)
                  THEN [active |-> FALSE, keep |-> TRUE,
                        events |-> DamageEvents(o), changed |-> TRUE]
                  ELSE none
             ELSE IF Abs(o.y - p.y) < 2500
                  THEN [active |-> FALSE, keep |-> TRUE,
                        events |-> CollectEvents(o), changed |-> TRUE]
                  ELSE none
        ELSE none

\* a removal as soon as the entity is behind the player
PastRemoveDistance_Player(z) == z > 0

\* whether an entity at z is behind the player far enough to be dropped
PastRemoveDistance(z) == z > REMOVE_DISTANCE

\* One iteration: the entity moved, fired and resolved.
StepObject(obj, dist, sd, p, id) ==
    LET prevZ == obj.z
        fires == Fires([obj EXCEPT !.z = prevZ + moveAmount(obj, dist, sd)])
        moved == [obj EXCEPT !.z = prevZ + moveAmount(obj, dist, sd),
                             !.hasFired = obj.hasFired \/ fires]
        r     == Resolve(moved, prevZ, p)
        gone  == PastRemoveDistance(moved.z)
    IN  [obj     |-> [moved EXCEPT !.active = r.active],
         keep    |-> r.keep /\ ~gone,
         spawns  |-> IF fires THEN <<ChargingBoar(moved, id)>> ELSE <<>>,
         events  |-> r.events,
         changed |-> fires \/ r.changed \/ gone,
         tested  |-> IsTested(moved)]

\* The loop, folded over currentObjects from index i.
RECURSIVE MoveAndUpdate(_, _, _, _, _, _)
MoveAndUpdate(objs, i, dist, sd, p, acc) ==
    IF i > Len(objs) THEN acc
    ELSE LET s == StepObject(objs[i], dist, sd, p, acc.nid)
         IN  MoveAndUpdate(objs, i + 1, dist, sd, p,
                [kept      |-> IF s.keep THEN Append(acc.kept, s.obj) ELSE acc.kept,
                 newSpawns |-> acc.newSpawns \o s.spawns,
                 events    |-> acc.events \o s.events,
                 changed   |-> acc.changed \/ s.changed,
                 all       |-> Append(acc.all, s.obj),
                 tested    |-> IF s.tested THEN acc.tested \cup {s.obj.id} ELSE acc.tested,
                 nid       |-> acc.nid + Len(s.spawns)])

(***************************************************************************)
(* 2. Spawning logic.  Every Math.random() call is a free choice, so a     *)
(* batch is one member of a set of outcomes.                               *)
(***************************************************************************)
\* keptObjects.filter(o => o.type !== MISSILE)
staticObjects(kept) == SelectSeq(kept, LAMBDA o : o.type # "MISSILE")

furthestZ(kept) ==
    LET st == staticObjects(kept)
    IN  IF Len(st) > 0 THEN SeqMin([i \in DOMAIN st |-> st[i].z]) ELSE -20000

\* minGap = 12 + speed * 0.4
minGap(spd) == 12000 + 400 * spd

\* a batch that always stands on the spawn line
spawnZ_AtLine(kept, spd) == -SPAWN_DISTANCE

spawnZ(kept, spd) == Min(furthestZ(kept) - minGap(spd), -SPAWN_DISTANCE)

\* whether the frame may add a batch
SpawnAllowed(kept) == furthestZ(kept) > -SPAWN_DISTANCE

isLetterDue(dist, nextL) == dist >= nextL

\* every index, collected or not
availableIndices_All(letters) == 0..(Len(target) - 1)

\* target.map((_, i) => i).filter(i => !collectedLetters.includes(i))
availableIndices(letters) == {i \in 0..(Len(target) - 1) : i \notin Range(letters)}

\* for (let i = -maxLane; i <= maxLane; i++) availableLanes.push(i)
availableLanes(lc) == (-(lc \div 2))..(lc \div 2)

\* the first n entries of a shuffled list: the sequences of n distinct lanes
Shuffled(lanes, n) ==
    {s \in [1..n -> lanes] : \A i, j \in 1..n : i # j => s[i] # s[j]}

\* let count = Math.ceil(Math.random() * maxEnemies), capped by the lanes
ClusterCounts(lv, lc) ==
    {Min(c, Cardinality(availableLanes(lc))) : c \in 0..lv}

\* let countToSpawn = Math.random() > 0.6 ? 2 : 1, capped by the lanes
RowCounts(lc) == {Min(c, Cardinality(availableLanes(lc))) : c \in {1, 2}}

\* hazards of both kinds at every level
HazardTypes_AnyLevel(lv) == {"ALIEN", "MONSTER"}

\* the kind of a hazard cluster at a level, if the level has one
HazardTypes(lv) ==
    (IF lv = 2 THEN {"ALIEN"} ELSE {}) \cup (IF lv = 3 THEN {"MONSTER"} ELSE {})

\* a letter, with value: target[chosenIndex]
Letter(id, x, idx, z) ==
    [Entity(id, "LETTER", x, 1000, z, 0, idx) EXCEPT !.value = target[idx + 1]]

LetterBatch(lane, idx, z) == <<Letter(0, lane * LANE_WIDTH, idx, z)>>

FallbackBatch(lane, z) == <<Entity(0, "GEM", lane * LANE_WIDTH, 1200, z, 100, -1)>>

ClusterBatch(type, lanes, z) ==
    [k \in DOMAIN lanes |-> Entity(0, type, lanes[k] * LANE_WIDTH, 600, z, 0, -1)]

\* an obstacle row: each obstacle followed by its gem when gems[i] # 0
RECURSIVE RowBatch(_, _, _, _)
RowBatch(lanes, gems, i, z) ==
    IF i > Len(lanes) THEN <<>>
    ELSE <<Entity(0, "OBSTACLE", lanes[i] * LANE_WIDTH, 400, z, 0, -1)>>
         \o (IF gems[i] # 0
             THEN <<Entity(0, "GEM", lanes[i] * LANE_WIDTH, 2000, z, gems[i], -1)>>
             ELSE <<>>)
         \o RowBatch(lanes, gems, i + 1, z)

StandaloneBatch(lane, pts, z) == <<Entity(0, "GEM", lane * LANE_WIDTH, 1200, z, pts, -1)>>

\* a batch, the branch that made it, the letter threshold and hasChanges
Plan(kind, objs, nextL, changed) ==
    [kind |-> kind, objs |-> objs, nextL |-> nextL, changed |-> changed]

\* the batches of the isLetterDue branch
DueBatches(z, nextL, letters, lv, lc) ==
    IF availableIndices(letters) # {}
    THEN {Plan("letter", LetterBatch(lane, idx, z), nextL + getLetterInterval(lv), TRUE) :
             lane \in getRandomLane(lc), idx \in availableIndices(letters)}
    ELSE {Plan("fallback", FallbackBatch(lane, z), nextL, TRUE) : lane \in getRandomLane(lc)}

\* the batches of the branch taken when no letter is due
MixBatches(z, nextL, lv, lc) ==
    {Plan("skip", <<>>, nextL, FALSE)}                \* Math.random() <= 0.1
    \cup {Plan("cluster", ClusterBatch(t, lanes, z), nextL, TRUE) :
             t \in HazardTypes(lv),
             lanes \in UNION {Shuffled(availableLanes(lc), n) : n \in ClusterCounts(lv, lc)}}
    \cup UNION {{Plan("row", RowBatch(lanes, gems, 1, z), nextL, TRUE) :
                    lanes \in Shuffled(availableLanes(lc), n),
                    gems \in [1..n -> {0} \cup GemPoints]} : n \in RowCounts(lc)}
    \cup {Plan("gem", StandaloneBatch(lane, pts, z), nextL, TRUE) :
             lane \in getRandomLane(lc), pts \in GemPoints}

\* every batch the planner can add after the loop left `kept`
SpawnPlans(kept, dist, nextL, letters, lv, lc, spd) ==
    IF ~SpawnAllowed(kept) THEN {Plan("none", <<>>, nextL, FALSE)}
    ELSE IF isLetterDue(dist, nextL)
         THEN DueBatches(spawnZ(kept, spd), nextL, letters, lv, lc)
         ELSE MixBatches(spawnZ(kept, spd), nextL, lv, lc)

\* uuidv4 for each entity of a batch
WithIds(batch, base) == [k \in DOMAIN batch |-> [batch[k] EXCEPT !.id = base + k - 1]]

(***************************************************************************)
(* The store's transitions, as the specification describes them.           *)
(***************************************************************************)
\* takeDamage: the penalty is taken from the score, which does not go below 0
takeDamage(sc, penalty) == Max(0, sc - penalty)

\* collectGem: the points are added to the score
collectGem(sc, points) == sc + points

\* collectLetter: collecting an index that is already collected is a no-op
collectLetter(letters, idx) ==
    IF idx \in Range(letters) THEN letters ELSE Append(letters, idx)

\* the store after the calls of one frame, applied in order
RECURSIVE ApplyCalls(_, _, _)
ApplyCalls(st, events, i) ==
    IF i > Len(events) THEN st
    ELSE LET e == events[i]
         IN  ApplyCalls(
                CASE e.ev = "takeDamage" -> [st EXCEPT !.score = takeDamage(st.score, e.arg)]
                  [] e.ev = "collectGem" -> [st EXCEPT !.score = collectGem(st.score, e.arg)]
                  [] e.ev = "collectLetter" ->
                        [st EXCEPT !.letters = collectLetter(st.letters, e.arg)]
                  [] e.ev = "openShop" -> [st EXCEPT !.status = "SHOP"]
                  [] OTHER -> st,
                events, i + 1)

(***************************************************************************)
(* The transition effect of LevelManager (useEffect on [status, level]).   *)
(* c is the controller: objects, distanceTraveled, nextLetterDistance,     *)
(* prevStatus, prevLevel, nextId; dst is the store's distance.             *)
(***************************************************************************)
isRestart(st, c) == st = "PLAYING" /\ c.prevStatus = "GAME_OVER"
isMenuReset(st) == st = "MENU"
isLevelUp(st, lv, c) == lv # c.prevLevel /\ st = "PLAYING"
isVictoryReset(st, c) == st = "PLAYING" /\ c.prevStatus = "VICTORY"

\* a reset that leaves the letter threshold as it is
FullReset_KeepsPacing(c) == [c EXCEPT !.objects = <<>>, !.distanceTraveled = 0]

\* objectsRef.current = []; distanceTraveled = 0; nextLetterDistance = interval(1)
FullReset(c) ==
    [c EXCEPT !.objects = <<>>, !.distanceTraveled = 0,
              !.nextLetterDistance = getLetterInterval(1)]

\* a level-up that keeps the far entities
LevelUpReset_NoPrune(lv, c) ==
    [c EXCEPT !.objects = Append(c.objects,
                                 Entity(c.nextId, "SHOP_PORTAL", 0, 0, -100000, 0, -1)),
              !.nextId = c.nextId + 1,
              !.nextLetterDistance =
                  c.distanceTraveled - SPAWN_DISTANCE + getLetterInterval(lv)]

\* a level-up that clears the collection and starts the distance again
LevelUpReset_Clearing(lv, c) ==
    [c EXCEPT !.objects = <<Entity(c.nextId, "SHOP_PORTAL", 0, 0, -100000, 0, -1)>>,
              !.nextId = c.nextId + 1,
              !.distanceTraveled = 0,
              !.nextLetterDistance = getLetterInterval(lv)]

\* prune the far entities, inject a ShopPortal, recompute the letter threshold
LevelUpReset(lv, c) ==
    [c EXCEPT !.objects = Append(SelectSeq(c.objects, LAMBDA o : o.z > -80000),
                                 Entity(c.nextId, "SHOP_PORTAL", 0, 0, -100000, 0, -1)),
              !.nextId = c.nextId + 1,
              !.nextLetterDistance =
                  c.distanceTraveled - SPAWN_DISTANCE + getLetterInterval(lv)]

\* the controller and the store's distance after the effect ran for (st, lv)
TransitionEffect(st, lv, c, dst) ==
    LET c1 == IF isMenuReset(st) \/ isRestart(st, c) \/ isVictoryReset(st, c)
              THEN FullReset(c)
              ELSE IF isLevelUp(st, lv, c) /\ lv > 1 THEN LevelUpReset(lv, c)
              ELSE c
        d1 == IF ~(isMenuReset(st) \/ isRestart(st, c) \/ isVictoryReset(st, c))
                 /\ ~(isLevelUp(st, lv, c) /\ lv > 1)
                 /\ st \in {"GAME_OVER", "VICTORY"}
              THEN c.distanceTraveled \div 1000 ELSE dst
    IN  [c |-> [c1 EXCEPT !.prevStatus = st, !.prevLevel = lv], distance |-> d1]

Controller ==
    [objects |-> objects, distanceTraveled |-> distanceTraveled,
     nextLetterDistance |-> nextLetterDistance, prevStatus |-> prevStatus,
     prevLevel |-> prevLevel, nextId |-> nextId]

\* The render that follows a store update: the effect runs when status or
\* level differ from the last render's, and the refs take its result.
Render(st, lv, c, dst) ==
    \E r \in {IF st # c.prevStatus \/ lv # c.prevLevel
               THEN TransitionEffect(st, lv, c, dst)
               ELSE [c |-> c, distance |-> dst]} :
        /\ objects' = r.c.objects
        /\ distanceTraveled' = r.c.distanceTraveled
        /\ nextLetterDistance' = r.c.nextLetterDistance
        /\ prevStatus' = r.c.prevStatus
        /\ prevLevel' = r.c.prevLevel
        /\ nextId' = r.c.nextId
        /\ distance' = r.distance

(***************************************************************************)
(* The frame callback of LevelManager (useFrame), followed by the render   *)
(* its store calls cause.  The callback reads status, speed, level,        *)
(* laneCount and collectedLetters as the last render captured them, so the *)
(* store calls of a frame do not change what the rest of the frame reads.  *)
(***************************************************************************)
\* Whether the frame reads the player's x and y: only the lateral and the
\* vertical test of an active entity inside the z-window do.  In the other
\* frames the model leaves the player on the ground of the middle lane.
ReadsPlayerXY(objs, dist, sd) ==
    \E i \in DOMAIN objs :
        /\ objs[i].active /\ objs[i].type # "SHOP_PORTAL"
        /\ inZZone(objs[i].z, objs[i].z + moveAmount(objs[i], dist, sd),
                   [x |-> 0, y |-> 0, z |-> 0])

PlayerPositions(objs, dist, sd) ==
    IF ReadsPlayerXY(objs, dist, sd)
    THEN {[x |-> px, y |-> py, z |-> 0] : px \in PlayerXs, py \in PlayerYs}
    ELSE {[x |-> 0, y |-> 0, z |-> 0]}

\* The player's positions when every frame that has an active entity in the
\* z-window, a portal too, may find the player on or beside the middle lane
\* and at any of the heights.
PlayerPositionsAny(objs, dist, sd) ==
    IF \E i \in DOMAIN objs :
          /\ objs[i].active
          /\ inZZone(objs[i].z, objs[i].z + moveAmount(objs[i], dist, sd),
                     [x |-> 0, y |-> 0, z |-> 0])
    THEN {[x |-> px, y |-> py, z |-> 0] : px \in PlayerXs, py \in PlayerYs}
    ELSE {[x |-> 0, y |-> 0, z |-> 0]}

\* a frame that also runs while the shop is open
FrameRuns_WithShop(st) == st \in {"PLAYING", "SHOP"}

\* the frame does nothing unless the status is Playing
FrameRuns(st) == st = "PLAYING"

\* the result of the frame for one outcome of its inputs and random choices
Frame(delta, p, plan, m) ==
    LET batch == WithIds(plan.objs, m.nid)
        kept  == (m.kept \o m.newSpawns) \o batch
        hasChanges == m.changed \/ plan.changed
    IN  [Controller EXCEPT
            !.objects = IF hasChanges THEN kept ELSE m.all,
            !.distanceTraveled = distanceTraveled + speed * safeDelta(delta),
            !.nextLetterDistance = plan.nextL,
            !.nextId = m.nid + Len(batch)]

TickAt(D, T, anywhere) ==
    /\ ticks < T
    /\ IF ~FrameRuns(status)
       THEN /\ ticks' = ticks
            /\ log' = <<>>
            /\ tested' = {}
            /\ planned' = "none"
            /\ UNCHANGED shopVars
            /\ UNCHANGED playerLane
            /\ UNCHANGED <<status, level, speed, laneCount, score, collectedLetters,
                           distance, objects, distanceTraveled, nextLetterDistance,
                           prevStatus, prevLevel, playerPos, nextId>>
       ELSE \E delta \in D :
            \E p \in IF anywhere
                      THEN PlayerPositionsAny(objects, speed * safeDelta(delta),
                                              safeDelta(delta))
                      ELSE PlayerPositions(objects, speed * safeDelta(delta),
                                           safeDelta(delta)) :
            \* the loop and the store calls are bound once for the frame
            \E m \in {MoveAndUpdate(objects, 1, speed * safeDelta(delta),
                                     safeDelta(delta), p,
                          [kept |-> <<>>, newSpawns |-> <<>>, events |-> <<>>,
                           changed |-> FALSE, all |-> <<>>, tested |-> {},
                           nid |-> nextId])} :
            \E st \in {ApplyCalls([status |-> status, score |-> score,
                                   letters |-> collectedLetters], m.events, 1)} :
            LET sd == safeDelta(delta)
            IN  \E plan \in SpawnPlans(m.kept \o m.newSpawns,
                                       distanceTraveled + speed * sd,
                                       nextLetterDistance, collectedLetters,
                                       level, laneCount, speed) :
                /\ m.nid + Len(plan.objs) <= MaxIds + 1
                /\ ticks' = ticks + 1
                /\ playerPos' = p
                /\ log' = m.events
                /\ tested' = m.tested
                /\ planned' = plan.kind
                /\ status' = st.status
                /\ score' = st.score
                /\ collectedLetters' = st.letters
                /\ Render(st.status, level, Frame(delta, p, plan, m), distance)
                /\ UNCHANGED <<level, speed, laneCount>>
                /\ UNCHANGED shopVars
                /\ UNCHANGED playerLane

Tick(D, T) == TickAt(D, T, FALSE)

(***************************************************************************)
(* The Player component's lane.                                            *)
(***************************************************************************)
\* a clamp to one lane more on either side
ClampLane_Wide(l, lc) ==
    IF Abs(l) > lc \div 2 + 1 THEN Max(Min(l, lc \div 2 + 1), -(lc \div 2 + 1)) ELSE l

\* the effect on [laneCount, lane]: maxLane = Math.floor(laneCount / 2);
\* if (Math.abs(lane) > maxLane) setLane(l => max(min(l, maxLane), -maxLane))
ClampLane(l, lc) ==
    IF Abs(l) > lc \div 2 THEN Max(Min(l, lc \div 2), -(lc \div 2)) ELSE l

(***************************************************************************)
(* Store transitions raised from outside the frame, each followed by the   *)
(* render it causes.                                                       *)
(***************************************************************************)
\* startGame / restartGame: a run starts from the initial score, level and
\* letters.  The frame and id counters of the model count within one run;
\* log, tested and playerPos keep what the last frame left.
NewRun(S, L) ==
    /\ status' = "PLAYING"
    /\ score' = INITIAL_SCORE
    /\ level' = 1
    /\ collectedLetters' = <<>>
    /\ speed' \in S
    /\ laneCount' \in L
    /\ Render("PLAYING", 1, [Controller EXCEPT !.nextId = 1], 0)
    /\ ticks' = 0
    /\ planned' = "none"
    /\ UNCHANGED <<playerPos, log, tested>>
    /\ UNCHANGED shopVars
    /\ playerLane' = ClampLane(playerLane, laneCount')

StartGame(S, L) == status = "MENU" /\ NewRun(S, L)

RestartGame(S, L) == status \in {"GAME_OVER", "VICTORY"} /\ NewRun(S, L)

CloseShop ==
    /\ status = "SHOP"
    /\ status' = "PLAYING"
    /\ Render("PLAYING", level, Controller, distance)
    /\ items' = <<>>
    /\ UNCHANGED <<level, speed, laneCount, score, collectedLetters,
                   playerPos, log, tested, planned, ticks,
                   hasDoubleJump, hasImmortality, playerLane>>

\* lives reach zero: only a damage hit takes a life
GameOver ==
    /\ status = "PLAYING" /\ ticks > 0
    /\ \E i \in DOMAIN log : log[i].ev = "takeDamage"
    /\ status' = "GAME_OVER"
    /\ Render("GAME_OVER", level, Controller, distance)
    /\ UNCHANGED <<level, speed, laneCount, score, collectedLetters,
                   playerPos, log, tested, planned, ticks>>
    /\ UNCHANGED shopVars
    /\ UNCHANGED playerLane

Victory ==
    /\ status = "PLAYING" /\ level = MaxLevel
    /\ status' = "VICTORY"
    /\ Render("VICTORY", level, Controller, distance)
    /\ UNCHANGED <<level, speed, laneCount, score, collectedLetters,
                   playerPos, log, tested, planned, ticks>>
    /\ UNCHANGED shopVars
    /\ UNCHANGED playerLane

\* the level rises while a frame of the run is still to come
AdvanceLevel(T) ==
    /\ status = "PLAYING" /\ level < MaxLevel
    /\ nextId <= MaxIds /\ ticks < T
    /\ level' = level + 1
    /\ Render(status, level + 1, Controller, distance)
    /\ UNCHANGED <<status, speed, laneCount, score, collectedLetters,
                   playerPos, log, tested, planned, ticks>>
    /\ UNCHANGED shopVars
    /\ UNCHANGED playerLane

\* the level rises in the same store update in which the status leaves
\* Playing: one render sees both changes
LevelUpInto(T) ==
    /\ status = "PLAYING" /\ level < MaxLevel
    /\ nextId <= MaxIds /\ ticks < T
    /\ level' = level + 1
    /\ status' \in {"SHOP", "GAME_OVER", "VICTORY"}
    /\ Render(status', level + 1, Controller, distance)
    /\ UNCHANGED <<speed, laneCount, score, collectedLetters,
                   playerPos, log, tested, planned, ticks>>
    /\ UNCHANGED shopVars
    /\ UNCHANGED playerLane

\* the speed changes while a frame of the run is still to come
SetSpeed(S, T) ==
    /\ status = "PLAYING" /\ ticks < T
    /\ speed' \in S \ {speed}
    /\ UNCHANGED <<status, level, laneCount, score, collectedLetters, distance,
                   objects, distanceTraveled, nextLetterDistance, prevStatus,
                   prevLevel, playerPos, log, tested, nextId, planned, ticks>>
    /\ UNCHANGED shopVars
    /\ UNCHANGED playerLane

(***************************************************************************)
(* The Player component's input handlers.  The jump and the special        *)
(* ability, which do not touch the lane, are left out.                     *)
(***************************************************************************)
\* if (status !== GameStatus.PLAYING) return
Listens(st) == st = "PLAYING"

\* setLane(l => Math.max(l - 1, -maxLane))
moveLeft(l, lc) == Max(l - 1, -(lc \div 2))

\* setLane(l => Math.min(l + 1, maxLane))
moveRight(l, lc) == Min(l + 1, lc \div 2)

\* everything but the lane, which the handlers and the clamp effect set
worldVars == <<status, level, speed, laneCount, score, collectedLetters, distance,
               objects, distanceTraveled, nextLetterDistance, prevStatus, prevLevel,
               playerPos, log, tested, nextId, planned, ticks,
               hasDoubleJump, hasImmortality, items>>

\* handleKeyDown for ArrowLeft and ArrowRight, and the clamp effect of the
\* render that a changed lane causes
KeyDown ==
    /\ \E key \in {"ArrowLeft", "ArrowRight"} :
          playerLane' = IF ~Listens(status) THEN playerLane
                  ELSE ClampLane(IF key = "ArrowLeft" THEN moveLeft(playerLane, laneCount)
                                 ELSE moveRight(playerLane, laneCount), laneCount)
    /\ UNCHANGED worldVars

\* the swipes a touch can end with: whether it began over the virtual
\* controls, and deltaX, deltaY in pixels
SwipeXs == {-40, -30, 40}
SwipeYs == {0, 50}

\* handleTouchEnd, up to the jump, and the clamp effect after it
TouchEnd ==
    /\ \E overControls \in BOOLEAN : \E deltaX \in SwipeXs : \E deltaY \in SwipeYs :
          playerLane' = IF ~Listens(status) \/ overControls THEN playerLane
                  ELSE IF Abs(deltaX) > Abs(deltaY) /\ Abs(deltaX) > 30
                       THEN ClampLane(IF deltaX > 0 THEN moveRight(playerLane, laneCount)
                                      ELSE moveLeft(playerLane, laneCount), laneCount)
                       ELSE playerLane
    /\ UNCHANGED worldVars

\* the store's lane count changes; the render runs the clamp effect
SetLaneCount(L) ==
    /\ laneCount' \in L \ {laneCount}
    /\ playerLane' = ClampLane(playerLane, laneCount')
    /\ UNCHANGED <<status, level, speed, score, collectedLetters, distance,
                   objects, distanceTraveled, nextLetterDistance, prevStatus,
                   prevLevel, playerPos, log, tested, nextId, planned, ticks>>
    /\ UNCHANGED shopVars

(***************************************************************************)
(* The shop screen (ShopScreen of the HUD) and the store's buyItem.        *)
(***************************************************************************)
SHOP_ITEMS ==
    <<[id |-> "DOUBLE_JUMP", cost |-> 1000, oneTime |-> TRUE],
      [id |-> "MAX_LIFE", cost |-> 1500, oneTime |-> FALSE],
      [id |-> "HEAL", cost |-> 1000, oneTime |-> FALSE],
      [id |-> "IMMORTAL", cost |-> 3000, oneTime |-> TRUE]>>

\* SHOP_ITEMS.filter: the one-time upgrades the player owns are left out
pool(dj, im) ==
    SelectSeq(SHOP_ITEMS, LAMBDA item : ~(item.id = "DOUBLE_JUMP" /\ dj)
                                        /\ ~(item.id = "IMMORTAL" /\ im))

\* pool.sort(() => 0.5 - Math.random()).slice(0, 3): the first three
\* entries of any order of the pool
Offers(dj, im) == Shuffled(Range(pool(dj, im)), Min(3, Len(pool(dj, im))))

\* buyItem: if the score affords the cost, the cost is taken and the item's
\* effect applied; lives are not part of the model
buyItem(st, id, cost) ==
    IF st.score >= cost
    THEN [st EXCEPT !.score = st.score - cost,
                    !.hasDoubleJump = st.hasDoubleJump \/ id = "DOUBLE_JUMP",
                    !.hasImmortality = st.hasImmortality \/ id = "IMMORTAL"]
    ELSE st

\* the effect of ShopScreen's first render: the offer is drawn once
ShopMount ==
    /\ status = "SHOP" /\ items = <<>>
    /\ items' \in Offers(hasDoubleJump, hasImmortality)
    /\ UNCHANGED <<status, level, speed, laneCount, score, collectedLetters, distance,
                   objects, distanceTraveled, nextLetterDistance, prevStatus,
                   prevLevel, playerPos, log, tested, nextId, planned, ticks,
                   hasDoubleJump, hasImmortality, playerLane>>

\* a click on the button of an offered item; the button is disabled unless
\* score >= item.cost
BuyItem ==
    /\ status = "SHOP"
    /\ \E k \in DOMAIN items :
          /\ score >= items[k].cost
          /\ LET st == buyItem([score |-> score, hasDoubleJump |-> hasDoubleJump,
                               hasImmortality |-> hasImmortality],
                              items[k].id, items[k].cost)
             IN  /\ score' = st.score
                 /\ hasDoubleJump' = st.hasDoubleJump
                 /\ hasImmortality' = st.hasImmortality
    /\ UNCHANGED <<status, level, speed, laneCount, collectedLetters, distance,
                   objects, distanceTraveled, nextLetterDistance, prevStatus,
                   prevLevel, playerPos, log, tested, nextId, planned, ticks, items,
                   playerLane>>

Init ==
    /\ status = "MENU"
    /\ level = 1
    /\ speed = 0
    /\ laneCount = 3
    /\ score = INITIAL_SCORE
    /\ collectedLetters = <<>>
    /\ distance = 0
    /\ objects = <<>>
    /\ distanceTraveled = 0
    /\ nextLetterDistance = getLetterInterval(1)
    /\ prevStatus = "MENU"
    /\ prevLevel = 1
    /\ playerPos = [x |-> 0, y |-> 0, z |-> 0]
    /\ log = <<>>
    /\ tested = {}
    /\ nextId = 1
    /\ planned = "none"
    /\ ticks = 0
    /\ hasDoubleJump = FALSE /\ hasImmortality = FALSE /\ items = <<>>
    /\ playerLane = 0

Next ==
    \/ Tick(Deltas, MaxTicks)
    \/ StartGame(Speeds, LaneCounts)
    \/ RestartGame(Speeds, LaneCounts)
    \/ CloseShop
    \/ GameOver
    \/ Victory
    \/ AdvanceLevel(MaxTicks)
    \/ SetSpeed(Speeds, MaxTicks)

\* Runs of a one-lane world, MaxTicks frames long.
Spec == Init /\ [][Next]_vars

NextLanes ==
    \/ Tick(Deltas, MaxTicksLanes)
    \/ StartGame(Speeds, LaneCountsLanes)
    \/ AdvanceLevel(MaxTicksLanes)
    \/ SetSpeed(Speeds, MaxTicksLanes)

\* Runs of a three-lane world, MaxTicksLanes frames long: every batch the
\* planner can add.
SpecLanes == Init /\ [][NextLanes]_vars

NextDegenerate ==
    \/ Tick(Deltas, MaxTicksLanes)
    \/ StartGame(Speeds, LaneCountsDegenerate)
    \/ AdvanceLevel(MaxTicksLanes)
    \/ SetSpeed(Speeds, MaxTicksLanes)

\* Runs in which the store hands the controller a lane count of 0 or less.
SpecDegenerate == Init /\ [][NextDegenerate]_vars

\* A run late in level 1.  It is the state after 299 frames at speed 70 with
\* delta >= 0.05 (3.5 a frame) in which the planner skips every batch but
\* the letters: the letters spawn at distance 150.5, 301, 451.5, 602, 752.5
\* and 903, each reaches the player 119 later and passes z = 20 before the
\* next is due; the sixth spawn sets the threshold to 7 * 150 and the sixth
\* letter leaves the collection at distance 1046.5.  The letters come in
\* any order; the frame and id counters count from this state.
LateLetters == {<<0, 1, 2, 3, 4, 5>>, <<5, 3, 1, 0, 2, 4>>}

InitLate ==
    /\ status = "PLAYING"
    /\ level = 1
    /\ speed \in Speeds
    /\ laneCount \in LaneCountsLanes
    /\ score = INITIAL_SCORE
    /\ collectedLetters \in LateLetters
    /\ distance = 0
    /\ objects = <<>>
    /\ distanceTraveled = 7 * getLetterInterval(1) - 3500
    /\ nextLetterDistance = 7 * getLetterInterval(1)
    /\ prevStatus = "PLAYING"
    /\ prevLevel = 1
    /\ playerPos = [x |-> 0, y |-> 0, z |-> 0]
    /\ log = <<>>
    /\ tested = {}
    /\ nextId = 1
    /\ planned = "none"
    /\ ticks = 0
    /\ hasDoubleJump = FALSE /\ hasImmortality = FALSE /\ items = <<>>
    /\ playerLane = 0

NextLate ==
    \/ Tick(Deltas, MaxTicksLate)
    \/ SetSpeed(Speeds, MaxTicksLate)

SpecLate == InitLate /\ [][NextLate]_vars

NextPortal ==
    \/ TickAt(Deltas, MaxTicksPortal, TRUE)
    \/ StartGame(Speeds, LaneCounts)
    \/ CloseShop
    \/ AdvanceLevel(MaxTicksPortal)
    \/ SetSpeed(Speeds, MaxTicksPortal)

\* Runs of a one-lane world, MaxTicksPortal frames long, in which the player
\* may be off the lane's centre or in the air when a portal arrives.
SpecPortal == Init /\ [][NextPortal]_vars

\* A run that has just met its first idle boar.  It is the state after
\* startGame with one lane at speed 70, the rise to level 2 before the first
\* frame (portal at -100, threshold 0 - 120 + 225 = 105) and one frame of
\* 0.042 s (2.94) whose batch was a cluster of one idle boar, spawned
\* 12 + 0.4 * 70 = 40 behind the portal.  The speed may have changed since;
\* the frame and id counters count from this state.
InitBoar ==
    /\ status = "PLAYING"
    /\ level = 2
    /\ speed \in Speeds
    /\ laneCount = 1
    /\ score = INITIAL_SCORE
    /\ collectedLetters = <<>>
    /\ distance = 0
    /\ objects = <<Entity(-1, "SHOP_PORTAL", 0, 0, -100000 + 70 * 42, 0, -1),
                   Entity(0, "ALIEN", 0, 600, -100000 + 70 * 42 - minGap(70), 0, -1)>>
    /\ distanceTraveled = 70 * 42
    /\ nextLetterDistance = getLetterInterval(2) - SPAWN_DISTANCE
    /\ prevStatus = "PLAYING"
    /\ prevLevel = 2
    /\ playerPos = [x |-> 0, y |-> 0, z |-> 0]
    /\ log = <<>>
    /\ tested = {-1}
    /\ nextId = 1
    /\ planned = "cluster"
    /\ ticks = 0
    /\ hasDoubleJump = FALSE /\ hasImmortality = FALSE /\ items = <<>>
    /\ playerLane = 0

NextBoar ==
    \/ Tick(Deltas, MaxTicksBoar)
    \/ AdvanceLevel(MaxTicksBoar)
    \/ SetSpeed(Speeds, MaxTicksBoar)

SpecBoar == InitBoar /\ [][NextBoar]_vars

\* A run of three lanes that has just met its first hazard.  It is the state
\* after startGame with three lanes at speed 70, the rise to level 2 or 3
\* before the first frame (portal at -100; a second rise prunes the first
\* portal and adds its own; threshold 0 - 120 + interval) and one frame of
\* 0.042 s (2.94) whose batch was a row of one obstacle without a gem or a
\* cluster of one hazard of the level, in any lane, 40 behind the portal.
\* The speed may have changed since; the frame and id counters count from
\* this state.
InitHit ==
    /\ status = "PLAYING"
    /\ level \in {2, 3}
    /\ speed \in Speeds
    /\ laneCount = 3
    /\ score = INITIAL_SCORE
    /\ collectedLetters = <<>>
    /\ distance = 0
    /\ \E lane \in availableLanes(3) :
       \E batch \in {RowBatch(<<lane>>, <<0>>, 1, -100000 + 70 * 42 - minGap(70))}
                     \cup {ClusterBatch(t, <<lane>>, -100000 + 70 * 42 - minGap(70)) :
                              t \in HazardTypes(level)} :
          /\ objects = <<Entity(-1, "SHOP_PORTAL", 0, 0, -100000 + 70 * 42, 0, -1)>>
                            \o WithIds(batch, 0)
          /\ planned = IF batch[1].type = "OBSTACLE" THEN "row" ELSE "cluster"
    /\ distanceTraveled = 70 * 42
    /\ nextLetterDistance = getLetterInterval(level) - SPAWN_DISTANCE
    /\ prevStatus = "PLAYING"
    /\ prevLevel = level
    /\ playerPos = [x |-> 0, y |-> 0, z |-> 0]
    /\ log = <<>>
    /\ tested = {-1}
    /\ nextId = 1
    /\ ticks = 0
    /\ hasDoubleJump = FALSE /\ hasImmortality = FALSE /\ items = <<>>
    /\ playerLane = 0

NextHit ==
    \/ Tick(Deltas, MaxTicksHit)
    \/ SetSpeed(Speeds, MaxTicksHit)

SpecHit == InitHit /\ [][NextHit]_vars

NextLevel ==
    \/ Tick(Deltas, MaxTicksLevel)
    \/ StartGame(Speeds, LaneCounts)
    \/ RestartGame(Speeds, LaneCounts)
    \/ AdvanceLevel(MaxTicksLevel)
    \/ LevelUpInto(MaxTicksLevel)
    \/ CloseShop
    \/ SetSpeed(Speeds, MaxTicksLevel)

\* Runs of a one-lane world in which the level rises before the first
\* frames, while the status stays Playing or as it leaves Playing.
SpecLevel == Init /\ [][NextLevel]_vars

NextPlayer ==
    \/ Tick(Deltas, MaxTicksPlayer)
    \/ KeyDown
    \/ TouchEnd
    \/ SetLaneCount(LaneCountsPlayer)
    \/ StartGame(Speeds, LaneCountsPlayer)
    \/ RestartGame(Speeds, LaneCountsPlayer)
    \/ AdvanceLevel(MaxTicksPlayer)
    \/ Victory

\* The lane of the player under move commands and lane-count changes, in
\* the menu, during the first frames of a run and after a victory.
SpecPlayer == Init /\ [][NextPlayer]_vars

\* A run at level 1 whose first letter is about to reach the player while
\* the second is about to fall due.  It is the state after 85 frames at
\* speed 70 with delta >= 0.05 (3.5 a frame): frame 1 adds an obstacle row at
\* -120, which leaves the collection in frame 42 (z = 23.5), and frame 42
\* adds another at -120; frame 43 (distance 150.5) finds it at -116.5 and
\* adds the due letter 12 + 0.4 * 70 = 40 behind it, at -156.5, raising the
\* threshold to 300; the later frames plan no batch, the player jumps the
\* obstacle, and the obstacle leaves in frame 83.  After frame 85 the
\* letter is at -156.5 + 42 * 3.5 = -9.5 and the distance is 297.5.  The
\* letter has any of the six indices; the speed may have changed since;
\* the frame and id counters count from this state.
InitLetter ==
    /\ status = "PLAYING"
    /\ level = 1
    /\ speed \in Speeds
    /\ laneCount = 1
    /\ score = INITIAL_SCORE
    /\ collectedLetters = <<>>
    /\ distance = 0
    /\ \E idx \in 0..(Len(target) - 1) :
          objects = <<Letter(0, 0, idx, -SPAWN_DISTANCE + 70 * 50 - minGap(70)
                                        + 42 * 70 * 50)>>
    /\ distanceTraveled = 85 * 70 * 50
    /\ nextLetterDistance = 2 * getLetterInterval(1)
    /\ prevStatus = "PLAYING"
    /\ prevLevel = 1
    /\ playerPos = [x |-> 0, y |-> 0, z |-> 0]
    /\ log = <<>>
    /\ tested = {0}
    /\ nextId = 1
    /\ planned = "skip"
    /\ ticks = 0
    /\ hasDoubleJump = FALSE /\ hasImmortality = FALSE /\ items = <<>>
    /\ playerLane = 0

NextLetter ==
    \/ Tick(Deltas, MaxTicksLetter)
    \/ SetSpeed(Speeds, MaxTicksLetter)

SpecLetter == InitLetter /\ [][NextLetter]_vars

\* A run whose first portal has just opened the shop: startGame with one
\* lane at speed 2420, the rise to level 2 before the first frame, and one
\* frame of 0.042 s that carries the portal from -100 to 1.64 and plans no
\* batch.  The score and the upgrades are what the store holds by then.
ShopScores == {300, 1000, 4000}

InitShop ==
    /\ status = "SHOP"
    /\ level = 2
    /\ speed = 2420
    /\ laneCount = 1
    /\ score \in ShopScores
    /\ collectedLetters = <<>>
    /\ distance = 0
    /\ objects = <<>>
    /\ distanceTraveled = 2420 * 42
    /\ nextLetterDistance = getLetterInterval(2) - SPAWN_DISTANCE
    /\ prevStatus = "SHOP"
    /\ prevLevel = 2
    /\ playerPos = [x |-> 0, y |-> 0, z |-> 0]
    /\ log = <<Event("openShop", 1, 0)>>
    /\ tested = {1}
    /\ nextId = 2
    /\ planned = "skip"
    /\ ticks = 1
    /\ hasDoubleJump \in BOOLEAN /\ hasImmortality \in BOOLEAN /\ items = <<>>
    /\ playerLane = 0

NextShop ==
    \/ ShopMount
    \/ BuyItem
    \/ CloseShop

SpecShop == InitShop /\ [][NextShop]_vars

(***************************************************************************)
(* Properties.  The numbers in them are the ones the specification         *)
(* states, scaled to the units of the model.                               *)
(***************************************************************************)
\* a step in which the frame callback ran to its end
FrameStep == ticks' = ticks + 1

\* the length the world moved in the frame of a FrameStep
FrameDist == distanceTraveled' - distanceTraveled

Ids(objs) == {objs[i].id : i \in DOMAIN objs}

\* the number of events ev the frame raised for entity id
EventCount(l, ev, id) == Cardinality({k \in DOMAIN l : l[k].ev = ev /\ l[k].id = id})

StoreCalls == {"takeDamage", "collectGem", "collectLetter", "openShop"}

\* the swept z-window, the lateral and the vertical test, for the player at
\* p and an entity o before a frame that moves it by move
InWindow(o, move, p) == o.z < p.z + 2000 /\ o.z + move > p.z - 2000

Beside(o, p) == Abs(o.x - p.x) < 900

\* C1: once an entity is inactive, no later frame raises a store call or an
\* event for it, wherever it is; an entity a frame resolves is inactive
\* after the frame, and a frame makes at most one store call for an entity.
C1_ResolvedOnce ==
    [][FrameStep =>
        /\ \A i \in DOMAIN objects : ~objects[i].active =>
              \A k \in DOMAIN log' : log'[k].id # objects[i].id
        /\ \A k \in DOMAIN log' :
              /\ \A j \in DOMAIN objects' :
                    objects'[j].id = log'[k].id => ~objects'[j].active
              /\ Cardinality({n \in DOMAIN log' : log'[n].id = log'[k].id
                                                  /\ log'[n].ev \in StoreCalls}) <= 1
      ]_vars

\* an inactive obstacle that the last frame moved inside the player's window
\* (every frame moves at least 2.94), on the player's lane and at the
\* player's height, and for which that frame raised nothing
C1_Witness ==
    \E i \in DOMAIN objects :
        /\ ~objects[i].active /\ objects[i].type = "OBSTACLE"
        /\ objects[i].z > -2000 /\ objects[i].z < 4940
        /\ Beside(objects[i], playerPos) /\ playerPos.y < 1000
        /\ \A k \in DOMAIN log : log[k].id # objects[i].id
        /\ status = "PLAYING" /\ ticks = MaxTicks

\* C3: the z of an entity never decreases from one frame to the next, and
\* an idle boar that fires stays where the frame moved it while a new
\* entity, the charging boar, appears 2 ahead of it.
C3_ZNeverDecreases ==
    [][\A i \in DOMAIN objects : \A j \in DOMAIN objects' :
          objects'[j].id = objects[i].id /\ ticks' # 0 =>
             /\ objects'[j].z >= objects[i].z
             /\ objects'[j].type = objects[i].type
             /\ (objects'[j].hasFired /\ ~objects[i].hasFired =>
                    /\ objects[i].type = "ALIEN"
                    /\ objects'[j].z = objects[i].z + FrameDist
                    /\ \E m \in DOMAIN objects' :
                          /\ objects'[m].id \notin Ids(objects)
                          /\ objects'[m].type = "MISSILE"
                          /\ objects'[m].z = objects'[j].z + 2000)
      ]_vars

\* an idle boar has fired, is still active and has moved on, next to the
\* charging boar it released
C3_Witness ==
    \E i, j \in DOMAIN objects :
        /\ objects[i].type = "ALIEN" /\ objects[i].hasFired /\ objects[i].active
        /\ objects[i].z > -90000
        /\ objects[j].type = "MISSILE" /\ objects[j].z = objects[i].z + 2000

NoDuplicates(s) == \A i, j \in DOMAIN s : i # j => s[i] # s[j]

\* the vertical test of a collectible
InReach(o, p) == Abs(o.y - p.y) < 2500

C4_LetterInterval ==
    /\ getLetterInterval(1) = 150000
    /\ \A lv \in 1..level : 2 * getLetterInterval(lv + 1) = 3 * getLetterInterval(lv)
    /\ level = 2 => getLetterInterval(level) = 225000
    /\ level = 3 => getLetterInterval(level) = 337500

\* the run has reached level 3 and the threshold was set from its interval
C4_Witness ==
    /\ level = 3 /\ status = "PLAYING"
    /\ nextLetterDistance = distanceTraveled - 120000 + 337500

\* an active obstacle the frame sweeps through the player's window, on the
\* player's lane and overlapping the player's band
ObstacleMeetsPlayer(o, move, p) ==
    /\ o.type = "OBSTACLE" /\ o.active
    /\ InWindow(o, move, p) /\ Beside(o, p)
    /\ p.y < 1000 /\ p.y + 1800 > 0

\* C6: an active obstacle that a frame brings into the player's window,
\* less than 0.9 beside the player and overlapping the player's band, is
\* inactive after that frame, the frame calls takeDamage for it once, with
\* 10, and raises one player-hit; a frame with no other call takes the
\* score from s to s - 10.
C6_ObstacleHit ==
    [][FrameStep =>
        \A i \in DOMAIN objects :
           ObstacleMeetsPlayer(objects[i], FrameDist, playerPos') =>
              /\ \A j \in DOMAIN objects' :
                    objects'[j].id = objects[i].id => ~objects'[j].active
              /\ EventCount(log', "takeDamage", objects[i].id) = 1
              /\ EventCount(log', "player-hit", objects[i].id) = 1
              /\ \A k \in DOMAIN log' :
                    log'[k].ev = "takeDamage" /\ log'[k].id = objects[i].id
                       => log'[k].arg = 10
              /\ Len(log') = 2 => score' = score - 10
      ]_vars

\* the last frame hit an obstacle and the score went from 300 to 290
C6_Witness ==
    /\ score = 290
    /\ \E k \in DOMAIN log : \E i \in DOMAIN objects :
          /\ log[k].ev = "takeDamage" /\ log[k].arg = 10
          /\ objects[i].id = log[k].id /\ objects[i].type = "OBSTACLE"
          /\ ~objects[i].active

\* C8: while the status is not Playing a frame changes neither the
\* entities nor the traveled distance nor the next letter threshold, and
\* the return from Shop to Playing changes none of them either.
C8_FrozenOutsidePlaying ==
    [][(status # "PLAYING" /\ status' = status)
       \/ (status = "SHOP" /\ status' = "PLAYING")
          => UNCHANGED <<objects, distanceTraveled, nextLetterDistance>>
      ]_vars

\* a frame has come and gone while the shop was open over a world that
\* holds entities
C8_Witness ==
    /\ status = "SHOP" /\ log = <<>> /\ objects # <<>>
    /\ distanceTraveled > 0

\* C9: when the status becomes Menu, or Playing from GameOver or Victory,
\* the controller holds no entity, distance 0 and the threshold 150, which
\* is the state the Menu -> Playing start leaves, whatever the level was.
C9_FullReset ==
    [][(status' = "MENU" /\ status # "MENU")
       \/ (status' = "PLAYING" /\ status \in {"MENU", "GAME_OVER", "VICTORY"})
          => /\ objects' = <<>>
             /\ distanceTraveled' = 0
             /\ nextLetterDistance' = 150000
             /\ nextLetterDistance' = getLetterInterval(1)
             /\ prevStatus' = "PLAYING" /\ prevLevel' = level'
      ]_vars

\* a run has just restarted after a game over: the last frame's hit is
\* still in the log and the controller is reset
C9_Witness ==
    /\ status = "PLAYING" /\ ticks = 0
    /\ \E k \in DOMAIN log : log[k].ev = "takeDamage"
    /\ objects = <<>> /\ distanceTraveled = 0 /\ nextLetterDistance = 150000

\* the move of entity o in the frame of a FrameStep
EntityMove(o) ==
    IF o.type = "MISSILE" THEN FrameDist + 28 * (FrameDist \div speed) ELSE FrameDist

Batch == {j \in DOMAIN objects' :
             objects'[j].id \notin Ids(objects) /\ objects'[j].type # "MISSILE"}

\* C5: every entity the planner creates stands at x = lane * 2.2 for an
\* integer lane with |lane| <= floor(laneCount / 2); with three lanes the
\* lane is -1, 0 or 1.
C5_SpawnLanes ==
    \A i \in DOMAIN objects :
        objects[i].type \notin {"SHOP_PORTAL", "MISSILE"} =>
            /\ \E lane \in -3..3 :
                  /\ objects[i].x = lane * 2200
                  /\ Abs(lane) <= laneCount \div 2
            /\ laneCount = 3 => objects[i].x \in {-2200, 0, 2200}

\* a three-lane world holds planner entities on both outer lanes
C5_Witness ==
    /\ laneCount = 3
    /\ \E i, j \in DOMAIN objects :
          /\ objects[i].x = -2200 /\ objects[j].x = 2200
          /\ objects[i].type = "OBSTACLE" /\ objects[j].type # "MISSILE"

\* C7: in a frame where a batch is allowed, the distance has reached the
\* letter threshold and the six indices are collected, the batch is one Gem
\* of 100 points and holds no Letter.
C7_FallbackGem ==
    [][(/\ FrameStep
        /\ Range(collectedLetters) = 0..5
        /\ distanceTraveled' >= nextLetterDistance
        /\ \A j \in DOMAIN objects' :
              objects'[j].id \in Ids(objects) /\ objects'[j].type # "MISSILE"
                 => objects'[j].z > -120000)
          => /\ Cardinality(Batch) = 1
             /\ \A j \in Batch :
                   /\ objects'[j].type = "GEM" /\ objects'[j].points = 100
                   /\ objects'[j].active
      ]_vars

\* the six letters are collected, the distance is past the threshold and
\* the last frame's batch left its gem
C7_Witness ==
    /\ Range(collectedLetters) = 0..5 /\ ticks > 0
    /\ distanceTraveled >= nextLetterDistance
    /\ \E i \in DOMAIN objects :
          /\ objects[i].type = "GEM" /\ objects[i].points = 100
          /\ objects[i].id = nextId - 1
    /\ \A i \in DOMAIN objects : objects[i].type # "LETTER"

\* a step in which the level rises while the status is and stays Playing
LevelUpStep == level' # level /\ level' > 1 /\ status = "PLAYING" /\ status' = "PLAYING"

\* C11: when the level changes to a value above 1 while the status is
\* Playing, the entities with z <= -80 leave the collection, every other
\* entity stays as it is and in its place, one new active ShopPortal at
\* (0, 0, -100) is appended, and the letter threshold becomes the traveled
\* distance - 120 + the new level's interval (225, 337.5), which is above the
\* traveled distance.
C11_LevelUpReset ==
    [][LevelUpStep =>
        /\ Len(objects') = Len(SelectSeq(objects, LAMBDA o : o.z > -80000)) + 1
        /\ SubSeq(objects', 1, Len(objects') - 1)
              = SelectSeq(objects, LAMBDA o : ~(o.z <= -80000))
        /\ LET portal == objects'[Len(objects')]
           IN  /\ portal.type = "SHOP_PORTAL" /\ portal.active
               /\ portal.x = 0 /\ portal.y = 0 /\ portal.z = -100000
               /\ portal.id \notin Ids(objects)
        /\ distanceTraveled' = distanceTraveled
        /\ nextLetterDistance' = distanceTraveled - 120000
                                   + (IF level' = 2 THEN 225000 ELSE 337500)
        /\ nextLetterDistance' = distanceTraveled - SPAWN_DISTANCE
                                   + getLetterInterval(level')
        /\ nextLetterDistance' > distanceTraveled
      ]_vars

\* the level has just risen to 2 after two frames: of the two entities the
\* frames spawned one is kept, nearer than -80, and one is gone, and the
\* portal stands at -100 where the level-up put it
C11_Witness ==
    /\ level = 2 /\ status = "PLAYING" /\ ticks = 2 /\ nextId = 4
    /\ Len(objects) = 2
    /\ objects[1].type # "SHOP_PORTAL" /\ objects[1].z > -80000
    /\ objects[2].type = "SHOP_PORTAL" /\ objects[2].z = -100000 /\ objects[2].id = 3
    /\ nextLetterDistance = distanceTraveled + 105000

\* C12 as stated: a level transition during a run leaves none of the
\* entities in the collection and sets the traveled distance to 0.
C12_AsStated ==
    [][LevelUpStep =>
        /\ \A j \in DOMAIN objects' : objects'[j].id \notin Ids(objects)
        /\ distanceTraveled' = 0
      ]_vars

\* C12: a level transition during a run keeps every entity nearer than
\* z = -80 as it is and drops only the farther ones, so the collection is
\* not cleared; the traveled distance stays what it was, and the letter
\* threshold is set relative to it, the new level's interval less 120 ahead.
C12_PartialReset ==
    [][LevelUpStep =>
        /\ \A i \in DOMAIN objects :
              (objects[i].z > -80000) <=> (\E j \in DOMAIN objects' : objects'[j] = objects[i])
        /\ Cardinality({j \in DOMAIN objects' : objects'[j].id \notin Ids(objects)}) = 1
        /\ distanceTraveled' = distanceTraveled
        /\ nextLetterDistance' - distanceTraveled' \in {225000 - 120000, 337500 - 120000}
      ]_vars

\* the level has just risen after two frames: an obstacle of before the rise
\* is still in the collection, in front of the new portal, and the traveled
\* distance is what the frames left
C12_Witness ==
    /\ level = 2 /\ status = "PLAYING" /\ ticks = 2 /\ distanceTraveled > 100000
    /\ Len(objects) >= 2
    /\ objects[Len(objects)].type = "SHOP_PORTAL" /\ objects[Len(objects)].z = -100000
    /\ objects[1].type = "OBSTACLE" /\ objects[1].z > -80000 /\ objects[1].active

\* C13 as stated: with a lane count of 0 or less no frame adds an entity,
\* whichever spawn path it takes.
C13_AsStated ==
    [][FrameStep /\ laneCount <= 0 => Batch = {}]_vars

\* the idle boars of objects that turn fired in the step
Firing == {i \in DOMAIN objects :
              /\ objects[i].type = "ALIEN" /\ ~objects[i].hasFired
              /\ \E j \in DOMAIN objects' :
                    objects'[j].id = objects[i].id /\ objects'[j].hasFired}

\* the charging boars the step created
NewMissiles == {j \in DOMAIN objects' :
                   objects'[j].type = "MISSILE" /\ objects'[j].id \notin Ids(objects)}

\* C14: an idle boar that has fired stays fired; an unfired idle boar fires
\* in a step exactly if the step is a frame that leaves it, active, at
\* z > -90; the charging boars a step creates are one for each idle boar
\* that fires in it, at that boar's x and 2 beyond its z, so no charging
\* boar comes about in any other way.
C14_FiresOnce ==
    [][/\ \A i \in DOMAIN objects : \A j \in DOMAIN objects' :
             objects[i].type = "ALIEN" /\ objects'[j].id = objects[i].id =>
                /\ objects[i].hasFired => objects'[j].hasFired
                /\ ~objects[i].hasFired =>
                      (objects'[j].hasFired <=>
                          /\ FrameStep /\ objects[i].active
                          /\ objects[i].z + FrameDist > -90000)
       /\ Cardinality(NewMissiles) = Cardinality(Firing)
       /\ \A i \in Firing : \E j \in NewMissiles :
             /\ objects'[j].x = objects[i].x
             /\ objects'[j].z = objects[i].z + FrameDist + 2000
       /\ \A i \in DOMAIN objects : objects[i].type # "ALIEN" => ~objects[i].hasFired
      ]_vars

\* an idle boar fired in an earlier frame; the last frame moved it and its
\* charging boar on and created no second charging boar
C14_Witness ==
    /\ ticks = 2
    /\ \E i \in DOMAIN objects :
          /\ objects[i].type = "ALIEN" /\ objects[i].hasFired /\ objects[i].active
          /\ objects[i].z > -90000 + 2940
    /\ Cardinality({j \in DOMAIN objects : objects[j].type = "MISSILE"}) = 1
    /\ \E j \in DOMAIN objects : objects[j].type = "MISSILE" /\ objects[j].id = 1

\* C15: an active ShopPortal calls openShop in a frame exactly if it is
\* less than 2 from the player's z after the frame's move, wherever the
\* player is in x and y; it calls it once, and it is not in the collection
\* after that frame, while a portal that does not call it stays, active,
\* until it is beyond z = 20.
C15_PortalOpensShop ==
    [][FrameStep =>
        \A i \in DOMAIN objects :
           objects[i].type = "SHOP_PORTAL" /\ objects[i].active =>
              LET z1 == objects[i].z + FrameDist
                  calls == EventCount(log', "openShop", objects[i].id)
              IN  /\ calls = (IF Abs(z1 - playerPos'.z) < 2000 THEN 1 ELSE 0)
                  /\ calls = 1 => objects[i].id \notin Ids(objects')
                  /\ calls = 0 /\ z1 <= 20000 =>
                        \E j \in DOMAIN objects' :
                           /\ objects'[j].id = objects[i].id
                           /\ objects'[j].active /\ objects'[j].z = z1
      ]_vars

\* the last frame opened the shop while the player was beside the lane's
\* centre and in the air; the portal that called openShop is gone
C15_Witness ==
    /\ status = "SHOP" /\ playerPos.x = 900 /\ playerPos.y = 1600
    /\ Len(log) = 1 /\ log[1].ev = "openShop"
    /\ log[1].id \notin Ids(objects)

\* C16: a frame whose delta is 0.042 or 0.1 moves the world by speed * 0.042
\* or speed * 0.05, the traveled distance grows by that length, every
\* entity the frame keeps has moved in z by exactly that length, a charging
\* boar by 28 * 0.042 or 28 * 0.05 more, and no other entity moves by more
\* than speed * 0.05 in a frame.
C16_MovePerFrame ==
    [][FrameStep =>
        /\ FrameDist \in {speed * 42, speed * 50}
        /\ \A i \in DOMAIN objects : \A j \in DOMAIN objects' :
              objects'[j].id = objects[i].id =>
                 /\ objects[i].type # "MISSILE" =>
                       /\ objects'[j].z = objects[i].z + FrameDist
                       /\ objects'[j].z - objects[i].z <= speed * 50
                 /\ objects[i].type = "MISSILE" =>
                       \/ /\ FrameDist = speed * 42
                          /\ objects'[j].z = objects[i].z + FrameDist + 28 * 42
                       \/ /\ FrameDist = speed * 50
                          /\ objects'[j].z = objects[i].z + FrameDist + 28 * 50
                 /\ objects'[j].x = objects[i].x /\ objects'[j].y = objects[i].y
      ]_vars

\* a charging boar has run through a clamped frame: it is 28 * 0.05 further
\* ahead of the idle boar that released it than the 2 it started with
C16_Witness ==
    \E i, j \in DOMAIN objects :
        /\ objects[i].type = "ALIEN" /\ objects[i].hasFired
        /\ objects[j].type = "MISSILE"
        /\ objects[j].z = objects[i].z + 2000 + 28 * 50

\* the entities a frame kept that are no charging boar, after its move
KeptStatic == {j \in DOMAIN objects' :
                  objects'[j].id \in Ids(objects) /\ objects'[j].type # "MISSILE"}

BatchOf(types) == {j \in Batch : objects'[j].type \in types}

\* C18 as stated: a hazard cluster holds at least 1 and at most
\* min(level, lanes) hazards, an obstacle row 1 or 2 obstacles and not more
\* than there are lanes, and in one batch no two hazards and no two
\* obstacles stand on the same lane.
C18_AsStated ==
    [][FrameStep /\ laneCount >= 1 =>
        LET lanes == 2 * (laneCount \div 2) + 1
            hazards == BatchOf({"ALIEN", "MONSTER"})
            obstacles == BatchOf({"OBSTACLE"})
        IN  /\ planned' = "cluster" =>
                  /\ Cardinality(hazards) >= 1
                  /\ Cardinality(hazards) <= Min(level, lanes)
            /\ planned' = "row" =>
                  /\ Cardinality(obstacles) \in {1, 2}
                  /\ Cardinality(obstacles) <= lanes
            /\ \A i, j \in hazards \cup obstacles :
                  i # j /\ objects'[i].type = objects'[j].type
                     => objects'[i].x # objects'[j].x
      ]_vars

\* C19: the entities a frame's batch adds are obstacles, gems, letters and
\* hazards only: an idle boar only in a frame at level 2, a monster only in
\* a frame at level 3, neither at level 1, and never a ShopPortal; a
\* charging boar appears in a frame only beside an idle boar that fired in
\* it, never from the batch.
C19_KindsByLevel ==
    [][FrameStep =>
        /\ \A j \in Batch :
              /\ objects'[j].type \in {"OBSTACLE", "GEM", "LETTER", "ALIEN", "MONSTER"}
              /\ objects'[j].type # "SHOP_PORTAL"
              /\ objects'[j].type = "ALIEN" => level = 2
              /\ objects'[j].type = "MONSTER" => level = 3
              /\ level = 1 => objects'[j].type \notin {"ALIEN", "MONSTER"}
              /\ planned' \in {"letter", "fallback", "cluster", "row", "gem"}
        /\ \A j \in DOMAIN objects' :
              objects'[j].id \notin Ids(objects) /\ objects'[j].type = "MISSILE" =>
                 \E i \in DOMAIN objects :
                    /\ objects[i].type = "ALIEN" /\ ~objects[i].hasFired
                    /\ objects'[j].z = objects[i].z + FrameDist + 2000
      ]_vars

\* the first frame of level 3 added a cluster that holds a monster
C19_Witness ==
    /\ level = 3 /\ ticks = 1 /\ planned = "cluster"
    /\ \E i \in DOMAIN objects : objects[i].type = "MONSTER" /\ objects[i].id = nextId - 1
    /\ \A i \in DOMAIN objects : objects[i].type # "ALIEN"

\* C20 as stated: while the shop is showing, the offer holds at most 3
\* items, no item twice, and no one-time upgrade the player owns; the score
\* falls in the shop only by the cost of an offered item that the score
\* before the purchase covers.
C20_AsStated ==
    [][/\ status' = "SHOP" =>
             /\ Len(items') <= 3
             /\ \A i, j \in DOMAIN items' : i # j => items'[i].id # items'[j].id
             /\ hasDoubleJump' => \A k \in DOMAIN items' : items'[k].id # "DOUBLE_JUMP"
             /\ hasImmortality' => \A k \in DOMAIN items' : items'[k].id # "IMMORTAL"
       /\ status = "SHOP" /\ score' # score =>
             \E k \in DOMAIN items :
                /\ items[k].cost <= score /\ score' = score - items[k].cost
      ]_vars

\* the Letter entities a frame creates
NewLetters == {j \in Batch : objects'[j].type = "LETTER"}

\* C21: a Letter is created only in a frame that ends with distanceTraveled
\* >= nextLetterDistance; its targetIndex is in 0..5 and is not among the
\* collected letters of the store when it is spawned; its value is the
\* character of HUNTER at that index; its creation raises nextLetterDistance
\* by exactly getLetterInterval(level); a frame creates at most one Letter.
C21_AsStated ==
    [][NewLetters # {} =>
          /\ FrameStep
          /\ distanceTraveled' >= nextLetterDistance
          /\ Cardinality(NewLetters) = 1
          /\ nextLetterDistance' = nextLetterDistance + getLetterInterval(level)
          /\ \A j \in NewLetters :
                /\ objects'[j].targetIndex \in 0..5
                /\ objects'[j].targetIndex \notin Range(collectedLetters')
                /\ objects'[j].value = target[objects'[j].targetIndex + 1]]_vars

\* the z a frame of length FrameDist gives entity o: a charging boar runs
\* 28 a second on top of the world's move
MovedZ(o) ==
    o.z + FrameDist + (IF o.type = "MISSILE" THEN 28 * (FrameDist \div speed) ELSE 0)

\* the frame registered a damage hit for entity o
HitRegistered(o) ==
    /\ EventCount(log', "player-hit", o.id) = 1
    /\ EventCount(log', "takeDamage", o.id) = 1

\* C22: a frame registers a damage hit for an active damage source exactly
\* when prevZ < playerZ + 2 and newZ > playerZ - 2, |x - playerX| < 0.9 and
\* playerY < objTop and playerY + 1.8 > objBottom, the band being [0, 1.0]
\* for an Obstacle, [0, 1.6] for a MISSILE and a Monster and
\* [y - 0.5, y + 0.5] for the idle hazard; so a player at height >= 1.0 is
\* not hit by an Obstacle, one at height >= 1.6 not by a MISSILE or
\* Monster, and one centred in a lane not by an entity of another lane.
C22_HitIff ==
    [][FrameStep =>
        \A i \in DOMAIN objects :
           LET o == objects[i]
               p == playerPos'
               bottom == IF o.type = "ALIEN" THEN o.y - 500 ELSE 0
               top == CASE o.type = "OBSTACLE" -> 1000
                        [] o.type \in {"MISSILE", "MONSTER"} -> 1600
                        [] OTHER -> o.y + 500
           IN  o.active /\ o.type \in {"OBSTACLE", "ALIEN", "MISSILE", "MONSTER"} =>
                 /\ HitRegistered(o) <=>
                       /\ o.z < p.z + 2000 /\ MovedZ(o) > p.z - 2000
                       /\ Abs(o.x - p.x) < 900
                       /\ p.y < top /\ p.y + 1800 > bottom
                 /\ ~HitRegistered(o) =>
                       /\ EventCount(log', "player-hit", o.id) = 0
                       /\ EventCount(log', "takeDamage", o.id) = 0
                 /\ o.type = "OBSTACLE" /\ p.y >= 1000 => ~HitRegistered(o)
                 /\ o.type \in {"MISSILE", "MONSTER"} /\ p.y >= 1600 => ~HitRegistered(o)
                 /\ (\E a, b \in -1..1 : a # b /\ p.x = a * 2200 /\ o.x = b * 2200)
                       => ~HitRegistered(o)
      ]_vars

\* the player, in the air at 1.0, above an obstacle's band, was hit by a
\* charging boar at level 2 (the red burst comes with boars and monsters)
C22_Witness ==
    /\ playerPos.y = 1000 /\ level = 2
    /\ \E k, n \in DOMAIN log :
          /\ log[k].ev = "player-hit"
          /\ log[n].ev = "particle-burst" /\ log[n].arg = 50 /\ log[n].id = log[k].id

\* the amount a label announces as a loss, 0 when it announces none
LabelLoss(label) == IF label # <<>> /\ label[1] = "-" THEN label[2] ELSE 0

\* C23: the penalty a frame passes to takeDamage for a damage source it
\* hits is the amount on that entity's floating label: 10 for an Obstacle,
\* 100 for an idle boar, a charging boar and a Monster.
C23_AsStated ==
    [][FrameStep =>
        \A i \in DOMAIN objects : \A k \in DOMAIN log' :
           log'[k].ev = "takeDamage" /\ log'[k].id = objects[i].id =>
              /\ log'[k].arg = LabelLoss(labelData(objects[i].type, objects[i].points))
              /\ objects[i].type = "OBSTACLE" => log'[k].arg = 10
              /\ objects[i].type \in {"ALIEN", "MISSILE", "MONSTER"} => log'[k].arg = 100
      ]_vars

\* C24: whatever move commands (keys or swipes) and lane-count changes
\* occur, the player's lane satisfies |lane| <= floor(laneCount / 2) after
\* the clamp effect; a command changes the lane by at most 1; a command
\* received while the status is not Playing leaves the lane as it is.
C24_LaneBounded ==
    [][/\ Abs(playerLane') <= laneCount' \div 2
       /\ playerLane' \in -2..2
       /\ laneCount' = laneCount =>
             /\ Abs(playerLane' - playerLane) <= 1
             /\ status # "PLAYING" => playerLane' = playerLane
      ]_vars

\* the player went two lanes to the left on five lanes and the run has ended
C24_Witness == playerLane = -2 /\ laneCount = 5 /\ status = "VICTORY"

\* the player's band and an entity's band intersect (a damage source), or
\* the entity is within 2.5 of the player's height (a collectible)
Overlaps(o, p) ==
    IF o.type \in {"OBSTACLE", "ALIEN", "MISSILE", "MONSTER"}
    THEN /\ p.y < (CASE o.type = "OBSTACLE" -> 1000
                     [] o.type = "ALIEN" -> o.y + 500
                     [] OTHER -> 1600)
         /\ p.y + 1800 > (IF o.type = "ALIEN" THEN o.y - 500 ELSE 0)
    ELSE Abs(o.y - p.y) < 2500

\* C25: no tunnelling.  With the player at a fixed z, an active entity
\* that is no portal and that a frame carries from z <= playerZ - 2 to any
\* z beyond playerZ - 2, however far, passes the z-window test in that
\* frame, at every speed and delta: if it is less than 0.9 beside the
\* player and overlaps the player's height the frame resolves it (raises
\* its events and deactivates it) before it can be removed; until that
\* frame no frame raises an event for it.
C25_NoTunnelling ==
    [][FrameStep =>
        \A i \in DOMAIN objects :
           LET o == objects[i]
               p == playerPos'
               events == Cardinality({k \in DOMAIN log' : log'[k].id = o.id})
           IN  o.active /\ o.type # "SHOP_PORTAL" /\ o.z <= p.z - 2000 =>
                 /\ p.z = playerPos.z
                 /\ MovedZ(o) > p.z - 2000 /\ Beside(o, p) /\ Overlaps(o, p) =>
                       /\ events >= 1
                       /\ \A j \in DOMAIN objects' :
                             objects'[j].id = o.id => ~objects'[j].active
                 /\ MovedZ(o) <= p.z - 2000 => events = 0
      ]_vars

\* a frame carried a hazard from before the player's window to beyond the
\* removal line, and the player was hit by it all the same
C25_Witness ==
    /\ ticks > 0
    /\ \E k \in DOMAIN log :
          /\ log[k].ev = "player-hit" /\ log[k].id \notin Ids(objects)
          /\ \A j \in DOMAIN objects : objects[j].z <= -120000

\* C26: once a frame has called openShop, until the status is Playing again
\* there is no takeDamage, collectGem or collectLetter call, no player-hit
\* or particle-burst event, no entity moves and nothing is spawned, also
\* not for the entities that follow the portal in that frame's iteration.
C26_AsStated ==
    [][/\ \A k \in DOMAIN log' : \A ip \in DOMAIN objects :
             FrameStep /\ log'[k].ev = "openShop" /\ objects[ip].id = log'[k].id =>
                /\ \A n \in (k + 1)..Len(log') : log'[n].ev = "openShop"
                /\ \A i \in (ip + 1)..Len(objects) : \A j \in DOMAIN objects' :
                      objects'[j].id = objects[i].id => objects'[j].z = objects[i].z
                /\ Ids(objects') \subseteq Ids(objects)
       /\ status = "SHOP" /\ status' = "SHOP" =>
             /\ objects' = objects /\ distanceTraveled' = distanceTraveled
             /\ \A n \in DOMAIN log' : log'[n] \in {log[m] : m \in DOMAIN log}
      ]_vars

\* the portals of the collection
Portals == {i \in DOMAIN objects : objects[i].type = "SHOP_PORTAL"}

\* C27: every rise of the level to a value > 1 during a run brings exactly
\* one ShopPortal injection and one recomputation of the letter threshold,
\* whatever the status is when the level changes: at once if the status is
\* Playing, when Playing resumes otherwise.  So a run at level > 1 that is
\* Playing and has not had a frame yet has had level - 1 injections, holds
\* a portal, and its threshold is distanceTraveled - 120 + the interval of
\* its level.
C27_AsStated ==
    /\ [](status = "PLAYING" /\ level > 1 /\ ticks = 0 =>
             /\ nextId = level
             /\ Cardinality(Portals) = 1
             /\ nextLetterDistance = distanceTraveled - 120000 + getLetterInterval(level))
    /\ [][level' > level /\ level' > 1 /\ status' = "PLAYING" =>
             /\ nextId' = nextId + 1
             /\ Cardinality({j \in DOMAIN objects' :
                    objects'[j].type = "SHOP_PORTAL" /\ objects'[j].id = nextId}) = 1
             /\ nextLetterDistance' =
                    distanceTraveled - 120000 + getLetterInterval(level')]_vars

\* C28: the collection never holds two active Letter entities with the same
\* targetIndex, and no frame calls collectLetter with an index that the
\* store's collectedLetters already holds at the call.
C28_AsStated ==
    /\ [](\A i, j \in DOMAIN objects :
             i # j /\ objects[i].type = "LETTER" /\ objects[j].type = "LETTER"
                   /\ objects[i].active /\ objects[j].active
                => objects[i].targetIndex # objects[j].targetIndex)
    /\ [][FrameStep =>
            \A k \in DOMAIN log' :
               log'[k].ev = "collectLetter" =>
                  /\ log'[k].arg \notin Range(collectedLetters)
                  /\ \A n \in 1..(k - 1) :
                        log'[n].ev = "collectLetter" => log'[n].arg # log'[k].arg]_vars

\* C29: when the last frame spawned a fallback Gem in place of a due
\* letter, the letter is no longer due: the letter threshold has been
\* advanced beyond the traveled distance, so the batches of the later frames
\* of the level are not all fallback Gems.
C29_AsStated ==
    planned = "fallback" =>
       /\ nextLetterDistance > distanceTraveled
       /\ \E i \in DOMAIN objects : objects[i].type = "GEM" /\ objects[i].points = 100

\* C30: with three lanes or more, at every level, a batch leaves at least
\* one of the lanes -floor(laneCount / 2)..floor(laneCount / 2) free of
\* Obstacles, idle boars and Monsters.
C30_AsStated ==
    [][FrameStep /\ laneCount >= 3 /\ level \in 1..3 =>
          \E free \in -(laneCount \div 2)..(laneCount \div 2) :
             \A j \in Batch :
                objects'[j].type \in {"OBSTACLE", "ALIEN", "MONSTER"} =>
                   objects'[j].x # free * 2200]_vars

=============================================================================
